---- MODULE Spec2Model ----
(***************************************************************************)
(* The Amazon job scraper of src/scraper.py as a state machine: the        *)
(* seen_jobs ledger, the fetch / filter / notify / record / cleanup cycle  *)
(* of run_scraping_cycle, and the polling loop of main that drives it.     *)
(*                                                                         *)
(* Time is counted in seconds.  now is the UTC clock (what SQLite's        *)
(* CURRENT_TIMESTAMP reads); datetime.now() reads the local clock, which   *)
(* is now + tz.  Text is modelled as sequences of one-character strings,   *)
(* timestamps as the fields of their fixed-width text in reading order.    *)
(***************************************************************************)
EXTENDS Integers, Sequences, FiniteSets, TLC

VARIABLES
    pc,          \* position of the process: down, fetch, filter, filtered, send, mark, cleanup, idle
    now,         \* UTC wall clock, seconds
    tz,          \* offset of the local clock from UTC, seconds
    kind,        \* how the running cycle was started: initial (line 337) or scheduled (line 343)
    next_run,    \* local time at which the schedule job is next due
    ledger,      \* the rows of table seen_jobs
    jobs,        \* run_scraping_cycle's jobs (the raw records fetched)
    bodyKind,    \* whether jobs is a list or a non-iterable value
    new_jobs,    \* run_scraping_cycle's new_jobs (the filtered job_data)
    idx,         \* position of the delivery loop in new_jobs
    fetchStatus, \* outcome of the last fetch_jobs call
    kept,        \* history: positions of jobs the last filter pass kept
    readFail,    \* history: positions of jobs whose ledger read failed in the last filter pass
    seenAtFilter,\* history: identifiers the ledger held when the last filter pass ran
    blindIds,    \* history: identifiers whose ledger read failed in the last filter pass
    prevFailed,  \* history: identifiers whose delivery failed in the previous cycle
    prevUnwritten,\* history: identifiers whose ledger write failed in the previous cycle
    log,         \* history: deliveries, ledger writes, sleeps and cleanups of the current cycle
    caught,      \* history: whether the current cycle ended in the handler of line 297
    delivered,   \* history: successful deliveries per identifier
    cycles,      \* history: cycles started
    starts,      \* history: process starts
    startup,     \* history: what the last start found: the secrets, the test message
    stopped,     \* history: why the process is down: none, startup, interrupt
    swept        \* history: the cycles that invoked cleanup_old_jobs

vars == <<pc, now, tz, kind, next_run, ledger, jobs, bodyKind, new_jobs, idx,
          fetchStatus, kept, readFail, seenAtFilter, blindIds, prevFailed,
          prevUnwritten, log, caught, delivered, cycles, starts, startup,
          stopped, swept>>

-----------------------------------------------------------------------------
(* Bounds of the model *)

MaxCycles == 2
MaxStarts == 2
MaxFetch == 2
MaxList == 2

(* Program constants *)

DaySeconds == 86400
FreshSeconds == 24 * 60 * 60
RetentionDays == 30
IntervalSeconds == 15 * 60
PollSeconds == 60
RateLimitSeconds == 1
WindowMinutes == 15
SpaceChar == 32
TChar == 84

-----------------------------------------------------------------------------
(* Text *)

UpperCase == <<"A", "B", "C", "D", "E", "F", "G", "H", "I", "J", "K", "L", "M",
               "N", "O", "P", "Q", "R", "S", "T", "U", "V", "W", "X", "Y", "Z">>
LowerCase == <<"a", "b", "c", "d", "e", "f", "g", "h", "i", "j", "k", "l", "m",
               "n", "o", "p", "q", "r", "s", "t", "u", "v", "w", "x", "y", "z">>

\* The lower-case letter of each upper-case letter
LowerTable ==
    [c \in {UpperCase[i] : i \in 1..26} |->
        LowerCase[CHOOSE i \in 1..26 : UpperCase[i] = c]]

LowerChar(c) == IF c \in DOMAIN LowerTable THEN LowerTable[c] ELSE c

\* str.lower()
Lower(s) == [i \in 1..Len(s) |-> LowerChar(s[i])]

\* keyword in title
Contains(hay, needle) ==
    \E off \in 0..(Len(hay) - Len(needle)) :
        \A k \in 1..Len(needle) : hay[off + k] = needle[k]

Keywords ==
    << <<"s", "d", "e", " ", "1">>,
       <<"s", "o", "f", "t", "w", "a", "r", "e", " ", "d", "e", "v", "e", "l", "o",
         "p", "m", "e", "n", "t", " ", "e", "n", "g", "i", "n", "e", "e", "r", " ", "i">>,
       <<"s", "d", "e", " ", "i">> >>

TitleSDE1Long ==
    <<"S", "o", "f", "t", "w", "a", "r", "e", " ", "D", "e", "v", "e", "l", "o",
      "p", "m", "e", "n", "t", " ", "E", "n", "g", "i", "n", "e", "e", "r", " ", "I">>
TitleSDE1Short == <<"S", "D", "E", " ", "1">>
TitleSDEI == <<"S", "r", " ", "s", "d", "e", " ", "i">>
TitleOther == <<"D", "a", "t", "a", " ", "E", "n", "g", "i", "n", "e", "e", "r">>

-----------------------------------------------------------------------------
(* JSON values of a raw record.  A title is a string (str = TRUE) or a     *)
(* value without .lower(), such as null.  A posted_date is a date written  *)
(* in one of four formats, another string, the empty string, or a value    *)
(* that is no string.                                                      *)

StrTitle(chars) == [str |-> TRUE, chars |-> chars]
NullTitle == [str |-> FALSE, chars |-> <<>>]
EmptyTitle == StrTitle(<<>>)
NATitle == StrTitle(<<"N", "/", "A">>)

DateText(fmt, day) == [kind |-> "date", fmt |-> fmt, day |-> day]
GarbageText == [kind |-> "text", fmt |-> "-", day |-> 0]
EmptyText == [kind |-> "empty", fmt |-> "-", day |-> 0]
NonString == [kind |-> "nonstr", fmt |-> "-", day |-> 0]

FieldNames == {"id_icims", "title", "location", "posted_date"}

\* A JSON object with the keys in has; a key that is absent holds a filler never read.
Record(has, id, title, location, posted) ==
    [dict |-> TRUE, has |-> has,
     id_icims |-> IF "id_icims" \in has THEN id ELSE "",
     title |-> IF "title" \in has THEN title ELSE EmptyTitle,
     location |-> IF "location" \in has THEN location ELSE "",
     posted_date |-> IF "posted_date" \in has THEN posted ELSE EmptyText]

\* An element of the jobs array that is no object (a string, a number)
NonDict == [dict |-> FALSE, has |-> {}, id_icims |-> "", title |-> EmptyTitle,
            location |-> "", posted_date |-> EmptyText]

\* dict.get(key, default)
Get(job, key, default) == IF key \in job.has THEN job[key] ELSE default

-----------------------------------------------------------------------------
(* Timestamps as text.  Both CURRENT_TIMESTAMP ('YYYY-MM-DD HH:MM:SS') and  *)
(* isoformat() ('YYYY-MM-DDTHH:MM:SS') are fixed-width: the date, one       *)
(* separator character, the time of day.                                    *)

\* SQLite's CURRENT_TIMESTAMP: UTC, a space between date and time
CurrentTimestamp(utc) ==
    [date |-> utc \div DaySeconds, sep |-> SpaceChar, time |-> utc % DaySeconds]

\* datetime.isoformat(): a 'T' between date and time
IsoFormat(t) ==
    [date |-> t \div DaySeconds, sep |-> TChar, time |-> t % DaySeconds]

\* SQLite's < on two TEXT values: byte by byte, left to right
TextLess(a, b) ==
    \/ a.date < b.date
    \/ a.date = b.date /\ a.sep < b.sep
    \/ a.date = b.date /\ a.sep = b.sep /\ a.time < b.time

-----------------------------------------------------------------------------
(* The ledger: table seen_jobs, a set of rows with job_id as primary key.   *)
(* Every call opens its own connection; ok = FALSE is a call whose          *)
(* connection, statement or commit raises.                                  *)

Row(job_data, utc) ==
    [job_id |-> job_data.job_id, title |-> job_data.title,
     location |-> job_data.location, posted_date |-> job_data.posted_date,
     created_at |-> CurrentTimestamp(utc)]

LedgerIds(led) == {r.job_id : r \in led}

\* A lookup that answers "seen" when the read raises
is_job_seen_FailsSeen(led, job_id, ok) ==
    IF ok THEN \E r \in led : r.job_id = job_id ELSE TRUE

\* A lookup that never finds a row
is_job_seen_Never(led, job_id, ok) == FALSE

\* SELECT 1 FROM seen_jobs WHERE job_id = ?; False when the read raises
is_job_seen(led, job_id, ok) ==
    IF ok THEN \E r \in led : r.job_id = job_id ELSE FALSE

\* A write that replaces the table's rows instead of the identifier's row
mark_job_as_seen_Truncating(led, job_data, utc, ok) ==
    IF ok THEN {Row(job_data, utc)} ELSE led

\* A write that adds a row and leaves the identifier's earlier row in place
mark_job_as_seen_Appending(led, job_data, utc, ok) ==
    IF ok THEN led \cup {Row(job_data, utc)} ELSE led

\* INSERT OR REPLACE INTO seen_jobs ...; created_at defaults to CURRENT_TIMESTAMP.
\* A write that raises is logged and leaves the table as it was.
mark_job_as_seen(led, job_data, utc, ok) ==
    IF ok
    THEN {r \in led : r.job_id # job_data.job_id} \cup {Row(job_data, utc)}
    ELSE led

\* DELETE FROM seen_jobs WHERE created_at < ?, with the local cutoff's isoformat()
cleanup_old_jobs(led, localNow, days_old, ok) ==
    LET cutoff_date == localNow - days_old * DaySeconds
    IN  IF ok
        THEN {r \in led : ~TextLess(r.created_at, IsoFormat(cutoff_date))}
        ELSE led

-----------------------------------------------------------------------------
(* Fetch *)

FetchFailures == {"network", "timeout", "http", "json", "shape"}

\* A fetch that hands on whatever body arrived, failed or not
fetch_jobs_KeepsBody(outcome, body) == body

\* The jobs array of the response, or [] when anything raises
fetch_jobs(outcome, body) == IF outcome = "ok" THEN body ELSE <<>>

-----------------------------------------------------------------------------
(* Freshness *)

DateFormats == <<"B", "b", "Ymd", "mdY">>

\* datetime.strptime(value, format): midnight of the date, ValueError when the
\* text is not in that format, TypeError when the value is no string
strptime(value, format) ==
    IF value.kind = "nonstr" THEN [err |-> "TypeError", day |-> 0]
    ELSE IF value.kind = "date" /\ value.fmt = format
         THEN [err |-> "none", day |-> value.day]
         ELSE [err |-> "ValueError", day |-> 0]

\* The loop over date_formats: the first format that parses wins
RECURSIVE TryFormats(_, _)
TryFormats(value, i) ==
    IF i > Len(DateFormats) THEN [err |-> "ValueError", day |-> 0]
    ELSE LET r == strptime(value, DateFormats[i])
         IN  IF r.err = "ValueError" THEN TryFormats(value, i + 1) ELSE r

\* A freshness check that lets through what it cannot parse
is_recent_job_Lenient(posted_date_str, localNow) ==
    LET r == TryFormats(posted_date_str, 1)
    IN  IF r.err # "none" THEN TRUE
        ELSE (localNow - r.day * DaySeconds) <= FreshSeconds

\* A freshness check on the distance between the two dates, not the signed
\* difference
is_recent_job_Absolute(posted_date_str, localNow) ==
    LET r == TryFormats(posted_date_str, 1)
        diff == localNow - r.day * DaySeconds
    IN  IF r.err # "none" THEN FALSE
        ELSE diff <= FreshSeconds /\ -diff <= FreshSeconds

is_recent_job(posted_date_str, localNow) ==
    LET r == TryFormats(posted_date_str, 1)
    IN  IF r.err = "TypeError" THEN FALSE          \* except Exception: return False
        ELSE IF r.err = "ValueError" THEN FALSE    \* could not parse: return False
        ELSE (localNow - r.day * DaySeconds) <= FreshSeconds

-----------------------------------------------------------------------------
(* Filter *)

JobData(job_id, title, location, posted_date) ==
    [job_id |-> job_id, title |-> title, location |-> location,
     posted_date |-> posted_date,
     url |-> <<"https://www.amazon.jobs/en/jobs/", job_id, "/apply">>]

\* The loop body without the role check
ProcessJob_NoRole(job, led, localNow, readOk) ==
    LET skip == [raised |-> FALSE, read |-> FALSE, keep |-> FALSE,
                 data |-> JobData("", EmptyTitle, "", EmptyText)]
        titleV == Get(job, "title", EmptyTitle)
        job_id == Get(job, "id_icims", "")
        posted_date == Get(job, "posted_date", EmptyText)
    IN  IF ~job.dict \/ ~titleV.str THEN [skip EXCEPT !.raised = TRUE]
        ELSE IF ~is_recent_job(posted_date, localNow) THEN skip
        ELSE IF is_job_seen(led, job_id, readOk) THEN [skip EXCEPT !.read = TRUE]
        ELSE [raised |-> FALSE, read |-> TRUE, keep |-> TRUE,
              data |-> JobData(job_id, Get(job, "title", NATitle),
                               Get(job, "location", "N/A"), posted_date)]

\* The loop body reading location and id_icims with job[...]: a record
\* without one of them raises KeyError and is skipped
ProcessJob_StrictFields(job, led, localNow, readOk) ==
    LET skip == [raised |-> FALSE, read |-> FALSE, keep |-> FALSE,
                 data |-> JobData("", EmptyTitle, "", EmptyText)]
        titleV == Get(job, "title", EmptyTitle)
        job_id == Get(job, "id_icims", "")
        posted_date == Get(job, "posted_date", EmptyText)
        title == Lower(titleV.chars)
    IN  IF ~job.dict \/ ~titleV.str THEN [skip EXCEPT !.raised = TRUE]
        ELSE IF "id_icims" \notin job.has \/ "location" \notin job.has
             THEN [skip EXCEPT !.raised = TRUE]
        ELSE IF ~\E k \in 1..Len(Keywords) : Contains(title, Keywords[k])
             THEN skip
        ELSE IF ~is_recent_job(posted_date, localNow) THEN skip
        ELSE IF is_job_seen(led, job_id, readOk) THEN [skip EXCEPT !.read = TRUE]
        ELSE [raised |-> FALSE, read |-> TRUE, keep |-> TRUE,
              data |-> JobData(job_id, job.title, job.location, posted_date)]

\* The loop body without the ledger check
ProcessJob_NoNovelty(job, led, localNow, readOk) ==
    LET skip == [raised |-> FALSE, read |-> FALSE, keep |-> FALSE,
                 data |-> JobData("", EmptyTitle, "", EmptyText)]
        titleV == Get(job, "title", EmptyTitle)
        job_id == Get(job, "id_icims", "")
        posted_date == Get(job, "posted_date", EmptyText)
        title == Lower(titleV.chars)
    IN  IF ~job.dict \/ ~titleV.str THEN [skip EXCEPT !.raised = TRUE]
        ELSE IF ~\E k \in 1..Len(Keywords) : Contains(title, Keywords[k])
             THEN skip
        ELSE IF ~is_recent_job(posted_date, localNow) THEN skip
        ELSE [raised |-> FALSE, read |-> FALSE, keep |-> TRUE,
              data |-> JobData(job_id, Get(job, "title", NATitle),
                               Get(job, "location", "N/A"), posted_date)]

\* The body of the loop of filter_sde1_jobs for one record: whether it raised
\* (and was skipped by the handler of line 228), whether it got as far as the
\* ledger read, whether it was appended, and the job_data appended
ProcessJob(job, led, localNow, readOk) ==
    LET skip == [raised |-> FALSE, read |-> FALSE, keep |-> FALSE,
                 data |-> JobData("", EmptyTitle, "", EmptyText)]
        titleV == Get(job, "title", EmptyTitle)
        job_id == Get(job, "id_icims", "")
        posted_date == Get(job, "posted_date", EmptyText)
        title == Lower(titleV.chars)
    IN  IF ~job.dict \/ ~titleV.str THEN [skip EXCEPT !.raised = TRUE]
        ELSE IF ~\E k \in 1..Len(Keywords) : Contains(title, Keywords[k])
             THEN skip
        ELSE IF ~is_recent_job(posted_date, localNow) THEN skip
        ELSE IF is_job_seen(led, job_id, readOk) THEN [skip EXCEPT !.read = TRUE]
        ELSE [raised |-> FALSE, read |-> TRUE, keep |-> TRUE,
              data |-> JobData(job_id, Get(job, "title", NATitle),
                               Get(job, "location", "N/A"), posted_date)]

\* The loop of filter_sde1_jobs from position i on: the positions appended
RECURSIVE FilterLoop(_, _, _, _, _)
FilterLoop(rawJobs, i, led, localNow, reads) ==
    IF i > Len(rawJobs) THEN <<>>
    ELSE LET p == ProcessJob(rawJobs[i], led, localNow, reads[i])
         IN  (IF p.keep THEN <<i>> ELSE <<>>)
             \o FilterLoop(rawJobs, i + 1, led, localNow, reads)

KeptPositions(rawJobs, led, localNow, reads) == FilterLoop(rawJobs, 1, led, localNow, reads)

filter_sde1_jobs(rawJobs, led, localNow, reads) ==
    LET pos == KeptPositions(rawJobs, led, localNow, reads)
    IN  [k \in 1..Len(pos) |->
            ProcessJob(rawJobs[pos[k]], led, localNow, reads[pos[k]]).data]

\* The positions whose record reached is_job_seen and whose read raised
FailedReads(rawJobs, led, localNow, reads) ==
    {i \in 1..Len(rawJobs) :
        ~reads[i] /\ ProcessJob(rawJobs[i], led, localNow, reads[i]).read}

-----------------------------------------------------------------------------
(* Notifier *)

\* The POST to the channel: True when it answers 2xx, False when anything raises
send_telegram_notification(job_data, posted) == posted

-----------------------------------------------------------------------------
(* Clock *)

Local(utc) == utc + tz

\* A window of the first thirty minutes of the day
InCleanupWindow_HalfHour(localNow) ==
    /\ (localNow % DaySeconds) \div 3600 = 0
    /\ ((localNow % 3600) \div 60) < 2 * WindowMinutes

\* datetime.now().hour == 0 and datetime.now().minute < 15
InCleanupWindow(localNow) ==
    /\ (localNow % DaySeconds) \div 3600 = 0
    /\ ((localNow % 3600) \div 60) < WindowMinutes

Today(localNow) == localNow \div DaySeconds

-----------------------------------------------------------------------------
(* The environment: what the job source answers and when the process is     *)
(* started.                                                                 *)

AllFields == FieldNames
IdUniverse == {"J1", "J2", ""}
TzOffsets == {0, 19800}
\* local time of the first start: 23:58:00, two minutes before the window opens
FirstStartLocal == 100 * DaySeconds - 120
BaseDay == FirstStartLocal \div DaySeconds
\* local time of later starts: 00:01:00, RetentionDays days after that midnight
LaterStartsLocal == {FirstStartLocal + RetentionDays * DaySeconds + 180}
\* how long the GET of fetch_jobs takes: no time, or longer than the interval
\* (timeout=30 bounds each wait on the socket, not the whole transfer)
SlowSeconds == IntervalSeconds + 60
FetchDurations == {0, SlowSeconds}

\* The records the job source answers with on local day d
SourceRecords(d) ==
    { Record(AllFields, "J1", StrTitle(TitleSDE1Long), "Seattle", DateText("Ymd", d)),
      Record(AllFields, "J2", StrTitle(TitleSDE1Short), "Bengaluru", DateText("B", d)),
      Record(AllFields, "J1", StrTitle(TitleSDEI), "Austin", DateText("mdY", d + 1)),
      Record(AllFields, "J2", StrTitle(TitleOther), "Bengaluru", DateText("b", d)) }

RECURSIVE ListsUpTo(_, _)
ListsUpTo(S, n) ==
    IF n = 0 THEN {<<>>}
    ELSE LET shorter == ListsUpTo(S, n - 1)
         IN  shorter \cup {Append(l, x) : l \in {m \in shorter : Len(m) = n - 1}, x \in S}

\* Response bodies: a jobs array, or a jobs value that is truthy and not iterable
Bodies(d) ==
    {[kind |-> "list", items |-> l] : l \in ListsUpTo(SourceRecords(d), MaxFetch)}
    \cup {[kind |-> "scalar", items |-> <<>>]}

Event(op, id, ok) == [op |-> op, id |-> id, ok |-> ok]

\* The identifiers of the events of one kind and outcome in a cycle's history
EventIds(l, op, ok) == {l[i].id : i \in {j \in 1..Len(l) : l[j].op = op /\ l[j].ok = ok}}

-----------------------------------------------------------------------------
(* State machine *)

Init ==
    /\ pc = "down"
    /\ tz \in TzOffsets
    /\ now = FirstStartLocal - tz
    /\ kind = "initial"
    /\ next_run = 0
    /\ ledger = {}
    /\ jobs = <<>>
    /\ bodyKind = "list"
    /\ new_jobs = <<>>
    /\ idx = 1
    /\ fetchStatus = "none"
    /\ kept = <<>>
    /\ readFail = {}
    /\ seenAtFilter = {}
    /\ blindIds = {}
    /\ prevFailed = {}
    /\ prevUnwritten = {}
    /\ log = <<>>
    /\ caught = FALSE
    /\ delivered = [i \in IdUniverse |-> 0]
    /\ cycles = 0
    /\ starts = 0
    /\ startup = [secrets |-> FALSE, tested |-> FALSE]
    /\ stopped = "none"
    /\ swept = {}

\* A cycle entry that takes every run for the immediate startup run
BeginCycle_AlwaysInitial(k) ==
    /\ pc' = "fetch"
    /\ kind' = "initial"
    /\ cycles' = cycles + 1
    /\ jobs' = <<>>
    /\ bodyKind' = "list"
    /\ new_jobs' = <<>>
    /\ idx' = 1
    /\ fetchStatus' = "none"
    /\ kept' = <<>>
    /\ readFail' = {}
    /\ seenAtFilter' = {}
    /\ blindIds' = {}
    /\ prevFailed' = EventIds(log, "send", FALSE)
    /\ prevUnwritten' = EventIds(log, "mark", FALSE)
    /\ log' = <<>>
    /\ caught' = FALSE

\* Entry of run_scraping_cycle (line 265)
BeginCycle(k) ==
    /\ pc' = "fetch"
    /\ kind' = k
    /\ cycles' = cycles + 1
    /\ jobs' = <<>>
    /\ bodyKind' = "list"
    /\ new_jobs' = <<>>
    /\ idx' = 1
    /\ fetchStatus' = "none"
    /\ kept' = <<>>
    /\ readFail' = {}
    /\ seenAtFilter' = {}
    /\ blindIds' = {}
    /\ prevFailed' = EventIds(log, "send", FALSE)
    /\ prevUnwritten' = EventIds(log, "mark", FALSE)
    /\ log' = <<>>
    /\ caught' = FALSE

\* run_scraping_cycle returns to main: after the initial run (line 337) the loop
\* starts; after a scheduled run the job is rescheduled and the loop sleeps
Return(utc) ==
    /\ pc' = IF kind = "initial" THEN "poll" ELSE "sleep"
    /\ next_run' = IF kind = "scheduled" THEN Local(utc) + IntervalSeconds ELSE next_run

\* A start that goes on to the scheduler although the test message failed
StartupPassed_SkipsTest(secrets, tested) == secrets

\* The constructor found both secrets (line 29) and test_setup returned True
\* (line 327)
StartupPassed(secrets, tested) == secrets /\ tested

\* A cycle whose exception leaves run_scraping_cycle and ends the process
HandleCycleError_Reraise(utc) ==
    /\ caught' = TRUE
    /\ pc' = "down"
    /\ next_run' = next_run

\* except Exception as e: logger.error(...) (lines 297-298): the cycle ends
HandleCycleError(utc) ==
    /\ caught' = TRUE
    /\ Return(utc)

\* main up to the initial run: the constructor (secrets, init_database),
\* test_setup, schedule.every(15).minutes.do(...), run_scraping_cycle()
Start(at, secrets, tested) ==
    /\ pc = "down"
    /\ starts < MaxStarts
    /\ cycles < MaxCycles
    /\ at >= Local(now)
    /\ starts = 0 => at = FirstStartLocal
    /\ starts' = starts + 1
    /\ now' = at - tz
    /\ startup' = [secrets |-> secrets, tested |-> secrets /\ tested]
    /\ IF StartupPassed(secrets, tested)
       THEN /\ BeginCycle("initial")
            /\ next_run' = at + IntervalSeconds
            /\ stopped' = "none"
            /\ UNCHANGED <<tz, ledger, delivered, swept>>
       ELSE /\ pc' = "down"
            /\ stopped' = "startup"
            /\ UNCHANGED <<tz, kind, next_run, ledger, jobs, bodyKind, new_jobs, idx,
                           fetchStatus, kept, readFail, seenAtFilter, blindIds, prevFailed, prevUnwritten, log,
                           caught, delivered, cycles, swept>>

\* jobs = self.fetch_jobs(); if not jobs: return (lines 271-274)
FetchJobs(outcome, body, took) ==
    /\ pc = "fetch"
    /\ fetchStatus' = outcome
    /\ jobs' = fetch_jobs(outcome, body.items)
    /\ bodyKind' = IF outcome = "ok" THEN body.kind ELSE "list"
    /\ now' = now + took
    /\ IF bodyKind' = "list" /\ jobs' = <<>>
       THEN /\ Return(now + took)
            /\ UNCHANGED kind
       ELSE /\ pc' = "filter"
            /\ UNCHANGED <<kind, next_run>>
    /\ UNCHANGED <<tz, ledger, new_jobs, idx, kept, readFail, seenAtFilter, blindIds,
                   prevFailed, prevUnwritten, log, caught, delivered, cycles, starts,
                   startup, stopped, swept>>

\* new_jobs = self.filter_sde1_jobs(jobs) (line 277); iterating a value that
\* is not iterable raises, which the handler of line 297 catches
FilterJobs(reads) ==
    /\ pc = "filter"
    /\ IF bodyKind = "scalar"
       THEN /\ HandleCycleError(now)
            /\ UNCHANGED <<new_jobs, kept, readFail, seenAtFilter, blindIds>>
       ELSE /\ new_jobs' = filter_sde1_jobs(jobs, ledger, Local(now), reads)
            /\ kept' = KeptPositions(jobs, ledger, Local(now), reads)
            /\ readFail' = FailedReads(jobs, ledger, Local(now), reads)
            /\ seenAtFilter' = LedgerIds(ledger)
            /\ blindIds' = {Get(jobs[i], "id_icims", "") : i \in FailedReads(jobs, ledger, Local(now), reads)}
            /\ pc' = "filtered"
            /\ UNCHANGED <<caught, next_run>>
    /\ UNCHANGED <<now, tz, kind, ledger, jobs, bodyKind, idx, fetchStatus,
                   prevFailed, prevUnwritten, log, delivered, cycles, starts,
                   startup, stopped, swept>>

\* An empty filter result that falls through to the cleanup gate
CheckNewJobs_FallsThrough ==
    /\ pc = "filtered"
    /\ pc' = IF new_jobs = <<>> THEN "cleanup" ELSE "send"
    /\ idx' = 1
    /\ jobs' = <<>>
    /\ kept' = <<>>
    /\ readFail' = {}
    /\ UNCHANGED <<now, tz, kind, next_run, ledger, bodyKind, new_jobs, fetchStatus,
                   seenAtFilter, blindIds, prevFailed, prevUnwritten, log, caught,
                   delivered, cycles, starts, startup, stopped, swept>>

\* if not new_jobs: return (lines 279-283); jobs is not read again
CheckNewJobs ==
    /\ pc = "filtered"
    /\ IF new_jobs = <<>>
       THEN Return(now)
       ELSE /\ pc' = "send"
            /\ UNCHANGED next_run
    /\ idx' = 1
    /\ jobs' = <<>>
    /\ kept' = <<>>
    /\ readFail' = {}
    /\ UNCHANGED <<now, tz, kind, ledger, bodyKind, new_jobs, fetchStatus,
                   seenAtFilter, blindIds, prevFailed, prevUnwritten, log, caught, delivered, cycles, starts,
                   startup, stopped, swept>>

\* A loop that ends after its first job
NextJob_Break ==
    /\ idx' = idx + 1
    /\ pc' = "cleanup"

\* The next position of the delivery loop (line 286)
NextJob ==
    /\ idx' = idx + 1
    /\ pc' = IF idx + 1 > Len(new_jobs) THEN "cleanup" ELSE "send"

\* Recording the jobs whose delivery failed
ShouldRecord_OnFailure(sent) == ~sent

\* Recording every job the loop visits, delivered or not
ShouldRecord_Always(sent) == TRUE

\* Whether the job is recorded: only when its delivery succeeded (lines 287-288)
ShouldRecord(sent) == sent

\* if self.send_telegram_notification(job): (line 287)
SendNotification(posted) ==
    /\ pc = "send"
    /\ LET job == new_jobs[idx]
           sent == send_telegram_notification(job, posted)
       IN  /\ log' = Append(log, Event("send", job.job_id, sent))
           /\ delivered' = IF sent THEN [delivered EXCEPT ![job.job_id] = @ + 1]
                                   ELSE delivered
           /\ IF ShouldRecord(sent)
              THEN /\ pc' = "mark"
                   /\ UNCHANGED idx
              ELSE NextJob
    /\ UNCHANGED <<now, tz, kind, next_run, ledger, jobs, bodyKind, new_jobs,
                   fetchStatus, kept, readFail, seenAtFilter, blindIds, prevFailed, prevUnwritten, caught,
                   cycles, starts,
                   startup, stopped, swept>>

\* self.mark_job_as_seen(job); time.sleep(1) (lines 288-289)
MarkSeen(written) ==
    /\ pc = "mark"
    /\ LET job == new_jobs[idx]
       IN  /\ ledger' = mark_job_as_seen(ledger, job, now, written)
           /\ log' = log \o <<Event("mark", job.job_id, written),
                              Event("sleep", job.job_id, TRUE)>>
    /\ now' = now + RateLimitSeconds
    /\ NextJob
    /\ UNCHANGED <<tz, kind, next_run, jobs, bodyKind, new_jobs, fetchStatus, kept,
                   readFail, seenAtFilter, blindIds, prevFailed, prevUnwritten, caught, delivered, cycles, starts,
                   startup, stopped, swept>>

\* The cleanup gate and the end of the cycle (lines 291-295)
CleanupAndFinish(ok) ==
    /\ pc = "cleanup"
    /\ IF InCleanupWindow(Local(now))
       THEN /\ ledger' = cleanup_old_jobs(ledger, Local(now), RetentionDays, ok)
            /\ log' = Append(log, Event("cleanup", "", ok))
            /\ swept' = swept \cup {[at |-> Local(now), kind |-> kind, run |-> starts,
                                      next_run |-> next_run]}
       ELSE UNCHANGED <<ledger, log, swept>>
    /\ UNCHANGED now
    /\ Return(now)
    /\ UNCHANGED <<tz, kind, jobs, bodyKind, new_jobs, idx, fetchStatus, kept, readFail,
                   seenAtFilter, blindIds, prevFailed, prevUnwritten, caught, delivered, cycles, starts,
                   startup, stopped>>

\* schedule.run_pending() (line 343): runs the job when it is due
RunPending ==
    /\ pc = "poll"
    /\ IF Local(now) >= next_run
       THEN /\ cycles < MaxCycles
            /\ BeginCycle("scheduled")
       ELSE /\ pc' = "sleep"
            /\ UNCHANGED <<kind, jobs, bodyKind, new_jobs, idx, fetchStatus, kept,
                           readFail, seenAtFilter, blindIds, prevFailed, prevUnwritten, log, caught, cycles>>
    /\ UNCHANGED <<now, tz, next_run, ledger, delivered, starts,
                   startup, stopped, swept>>

\* time.sleep(60) (line 344)
Sleep ==
    /\ pc = "sleep"
    /\ cycles < MaxCycles
    /\ now' = now + PollSeconds
    /\ pc' = "poll"
    /\ UNCHANGED <<tz, kind, next_run, ledger, jobs, bodyKind, new_jobs, idx,
                   fetchStatus, kept, readFail, seenAtFilter, blindIds, prevFailed, prevUnwritten, log, caught,
                   delivered, cycles, starts,
                   startup, stopped, swept>>

\* KeyboardInterrupt: no handler below main catches it (they catch Exception),
\* so it ends the process wherever it is (lines 346-347)
Interrupt ==
    /\ pc # "down"
    /\ pc' = "down"
    /\ stopped' = "interrupt"
    /\ jobs' = <<>>
    /\ bodyKind' = "list"
    /\ new_jobs' = <<>>
    /\ idx' = 1
    /\ kept' = <<>>
    /\ readFail' = {}
    /\ UNCHANGED <<now, tz, kind, next_run, ledger, fetchStatus, seenAtFilter, blindIds,
                   prevFailed, prevUnwritten, log, caught, delivered, cycles, starts,
                   startup, swept>>

StartStep ==
    /\ pc = "down"
    /\ \E at \in {FirstStartLocal} \cup LaterStartsLocal, secrets \in BOOLEAN,
          tested \in BOOLEAN :
          Start(at, secrets, tested)

FetchStep ==
    /\ pc = "fetch"
    /\ \E outcome \in {"ok"} \cup FetchFailures, body \in Bodies(Today(Local(now))),
          took \in FetchDurations :
          FetchJobs(outcome, body, took)

FilterStep ==
    /\ pc = "filter"
    /\ \E reads \in [1..Len(jobs) -> BOOLEAN] : FilterJobs(reads)

SendStep == \E posted \in BOOLEAN : SendNotification(posted)

MarkStep == \E written \in BOOLEAN : MarkSeen(written)

CleanupStep == \E ok \in BOOLEAN : CleanupAndFinish(ok)

Next ==
    \/ StartStep
    \/ FetchStep
    \/ FilterStep
    \/ CheckNewJobs
    \/ SendStep
    \/ MarkStep
    \/ CleanupStep
    \/ RunPending
    \/ Sleep
    \/ Interrupt

Spec == Init /\ [][Next]_vars

\* The same program under a job source with few answers: an empty array, one
\* job, two jobs, or a value that is not iterable
LiveBodies(d) ==
    LET r1 == Record(AllFields, "J1", StrTitle(TitleSDE1Long), "Seattle", DateText("Ymd", d))
        r2 == Record(AllFields, "J2", StrTitle(TitleSDE1Short), "Bengaluru", DateText("B", d + 1))
    IN  {[kind |-> "list", items |-> l] : l \in {<<>>, <<r1>>, <<r1, r2>>}}
        \cup {[kind |-> "scalar", items |-> <<>>]}

FetchStepLive ==
    /\ pc = "fetch"
    /\ \E outcome \in {"ok", "timeout"}, body \in LiveBodies(Today(Local(now))),
          took \in FetchDurations :
          FetchJobs(outcome, body, took)

\* The steps main's thread takes by itself: every network call has a timeout
\* (lines 142, 255) and every sleep is finite (lines 289, 344), so a step that
\* can be taken is taken; starts and interrupts are the operator's
Progress ==
    \/ FetchStepLive
    \/ CheckNewJobs
    \/ SendStep
    \/ MarkStep
    \/ CleanupStep
    \/ RunPending
    \/ Sleep

\* Weak fairness of FilterStep, which is enabled exactly when pc = "filter"
FilterFairness == []<>(pc # "filter") \/ []<><<FilterStep>>_vars

NextLive ==
    \/ StartStep
    \/ Progress
    \/ FilterStep
    \/ Interrupt

SpecLive == Init /\ [][NextLive]_vars /\ WF_vars(Progress) /\ FilterFairness

-----------------------------------------------------------------------------
(* The filter on its own: one pass of filter_sde1_jobs over every list of   *)
(* up to MaxList raw records, well-formed or not, against a ledger that     *)
(* earlier cycles have written, at midnight sharp and five minutes past.    *)

\* how far ahead the latest posted_date of the records lies, in days
FarDays == 400
FilterRecords(d) ==
    SourceRecords(d) \cup
    { Record(AllFields, "J2", StrTitle(TitleSDE1Long), "Seattle", DateText("b", d - 1)),
      Record(AllFields, "J1", StrTitle(TitleSDE1Long), "Seattle", DateText("Ymd", d - 2)),
      Record(AllFields, "J2", StrTitle(TitleSDE1Short), "Bengaluru", GarbageText),
      Record(AllFields, "J1", StrTitle(TitleSDE1Short), "Seattle", EmptyText),
      Record(AllFields, "J1", StrTitle(TitleSDE1Long), "Seattle", NonString),
      Record(AllFields \ {"posted_date"}, "J2", StrTitle(TitleSDE1Long), "Seattle", EmptyText),
      Record(AllFields \ {"location"}, "J1", StrTitle(TitleSDE1Long), "", DateText("Ymd", d)),
      Record(AllFields \ {"id_icims"}, "", StrTitle(TitleSDE1Short), "Austin", DateText("B", d)),
      Record(AllFields \ {"title"}, "J2", EmptyTitle, "Austin", DateText("B", d)),
      Record(AllFields, "J1", NullTitle, "Seattle", DateText("Ymd", d)),
      Record(AllFields, "J2", StrTitle(TitleOther), "Bengaluru", GarbageText),
      Record(AllFields, "J2", StrTitle(TitleSDEI), "Austin", DateText("Ymd", d + FarDays)),
      NonDict }

\* Ledgers that cycles of the day before have written
FilterLedgers(d) ==
    LET utc == (d - 1) * DaySeconds + 300
        j1 == Row(JobData("J1", StrTitle(TitleSDE1Long), "Seattle", DateText("Ymd", d - 1)), utc)
        j2 == Row(JobData("J2", StrTitle(TitleSDE1Short), "Bengaluru", DateText("B", d - 1)), utc + 1)
        j0 == Row(JobData("", StrTitle(TitleSDE1Short), "Austin", DateText("B", d - 1)), utc + 2)
    IN  {{}, {j1}, {j1, j2, j0}}

InitFilter ==
    /\ pc = "filter"
    /\ tz = 0
    /\ now \in {(BaseDay + 1) * DaySeconds, (BaseDay + 1) * DaySeconds + 300}
    /\ kind = "initial"
    /\ next_run = now + IntervalSeconds
    /\ ledger \in FilterLedgers(BaseDay + 1)
    /\ jobs \in ListsUpTo(FilterRecords(BaseDay + 1), MaxList) \ {<<>>}
    /\ bodyKind = "list"
    /\ new_jobs = <<>>
    /\ idx = 1
    /\ fetchStatus = "ok"
    /\ kept = <<>>
    /\ readFail = {}
    /\ seenAtFilter = {}
    /\ blindIds = {}
    /\ prevFailed = {}
    /\ prevUnwritten = {}
    /\ log = <<>>
    /\ caught = FALSE
    /\ delivered = [i \in IdUniverse |-> IF i \in LedgerIds(ledger) THEN 1 ELSE 0]
    /\ cycles = 1
    /\ starts = 1
    /\ startup = [secrets |-> TRUE, tested |-> TRUE]
    /\ stopped = "none"
    /\ swept = {}

NextFilter == FilterStep

SpecFilter == InitFilter /\ [][NextFilter]_vars

-----------------------------------------------------------------------------
(* What the claims speak of, stated from the raw records themselves *)

Range(f) == {f[i] : i \in DOMAIN f}

Ascending(f) == \A i, j \in DOMAIN f : i < j => f[i] < f[j]

\* The identifier the filter works with: the record's, or '' when it has none
IdOf(job) == IF job.dict /\ "id_icims" \in job.has THEN job.id_icims ELSE ""

\* The lower-cased title contains one of the role keywords
RoleMatch(job) ==
    /\ job.dict
    /\ "title" \in job.has
    /\ job.title.str
    /\ LET low == Lower(job.title.chars)
       IN  \E k \in 1..Len(Keywords) :
               \E a \in 1..Len(low) :
                   /\ a + Len(Keywords[k]) - 1 <= Len(low)
                   /\ SubSeq(low, a, a + Len(Keywords[k]) - 1) = Keywords[k]

\* The posted-date is written in an accepted format
Parseable(job) ==
    /\ job.dict
    /\ "posted_date" \in job.has
    /\ job.posted_date.kind = "date"
    /\ job.posted_date.fmt \in Range(DateFormats)

\* The posted-date parses and lies at most 24 hours before the local clock
Fresh(job, localNow) ==
    /\ Parseable(job)
    /\ localNow - job.posted_date.day * DaySeconds <= FreshSeconds

Eligible(job, localNow) == RoleMatch(job) /\ Fresh(job, localNow)

CycleEnded == pc \in {"poll", "sleep"}

\* Successful deliveries of an identifier in the current cycle
SentNow(id) == Cardinality({i \in 1..Len(log) : log[i] = Event("send", id, TRUE)})

-----------------------------------------------------------------------------
(* C1 as stated: once an identifier has been delivered successfully, no     *)
(* later cycle delivers it again.                                           *)
C1_AtMostOnce ==
    \A id \in IdUniverse : delivered[id] - SentNow(id) >= 1 => SentNow(id) = 0

(* C1 as amended: an identifier that has been delivered is delivered again  *)
(* only by a cycle whose filter pass found no ledger entry for it (the      *)
(* write failed, cleanup deleted it, or it had not been written yet) or     *)
(* whose ledger read for it failed.                                         *)
C1_RedeliveryOnlyWhenUnseen ==
    [][\A id \in IdUniverse :
          (delivered'[id] > delivered[id] /\ delivered[id] >= 1)
              => (id \notin seenAtFilter \/ id \in blindIds)]_vars

\* A second cycle is offered an eligible job that was delivered and recorded,
\* leaves it out, and goes on to deliver another one
C1_Witness ==
    /\ pc = "filtered"
    /\ cycles = 2
    /\ delivered["J1"] = 1
    /\ "J1" \in LedgerIds(ledger)
    /\ \E i \in 1..Len(jobs) : IdOf(jobs[i]) = "J1" /\ Eligible(jobs[i], Local(now))
    /\ new_jobs # <<>>
    /\ \A k \in 1..Len(new_jobs) : new_jobs[k].job_id # "J1"

-----------------------------------------------------------------------------
(* C2 as stated: a record whose identifier is in the ledger at filter time  *)
(* is never in the filter's output.                                         *)
C2_SeenExcluded ==
    pc = "filtered" =>
        \A i \in 1..Len(jobs) :
            IdOf(jobs[i]) \in LedgerIds(ledger) => i \notin Range(kept)

(* C2 as amended: a record whose identifier is in the ledger at filter time *)
(* is left out whenever the ledger read for it does not fail, eligible or   *)
(* not; so a replayed fetch yields nothing for a recorded identifier.       *)
C2_SeenExcludedWhenRead ==
    pc = "filtered" =>
        \A i \in 1..Len(jobs) :
            (IdOf(jobs[i]) \in LedgerIds(ledger) /\ i \notin readFail)
                => /\ i \notin Range(kept)
                   /\ \A k \in 1..Len(new_jobs) :
                         new_jobs[k].job_id = IdOf(jobs[i]) =>
                             \E j \in readFail : IdOf(jobs[j]) = IdOf(jobs[i])

\* The replay: a fetch made of one eligible job that is already recorded
\* comes out of the filter empty
C2_Witness ==
    /\ pc = "filtered"
    /\ Len(jobs) = 1
    /\ Eligible(jobs[1], Local(now))
    /\ \E r \in ledger : r.job_id = IdOf(jobs[1]) /\ r.title = jobs[1].title
    /\ readFail = {}
    /\ new_jobs = <<>>

-----------------------------------------------------------------------------
(* C3 as stated: a job whose delivery failed has no ledger entry at the end *)
(* of the cycle, and the next cycle's filter includes it again when the     *)
(* fetch returns it still role-matching and fresh.                          *)
C3_FailedNotRecorded ==
    /\ CycleEnded =>
          \A id \in EventIds(log, "send", FALSE) : id \notin LedgerIds(ledger)
    /\ pc = "filtered" =>
          \A i \in 1..Len(jobs) :
              (IdOf(jobs[i]) \in prevFailed /\ Eligible(jobs[i], Local(now)))
                  => i \in Range(kept)

(* C3 as amended: a failed delivery records nothing, so at the end of the   *)
(* cycle the ledger holds the identifier only if it held it when the filter *)
(* ran or another record with that identifier was delivered in the cycle;   *)
(* and the next cycle's filter includes the job again whenever the ledger   *)
(* holds no entry for it.                                                   *)
C3_FailedNotRecordedByThatDelivery ==
    /\ CycleEnded =>
          \A id \in EventIds(log, "send", FALSE) :
              id \in LedgerIds(ledger) =>
                  (id \in seenAtFilter \/ id \in EventIds(log, "send", TRUE))
    /\ pc = "filtered" =>
          \A i \in 1..Len(jobs) :
              (/\ IdOf(jobs[i]) \in prevFailed
               /\ IdOf(jobs[i]) \notin LedgerIds(ledger)
               /\ Eligible(jobs[i], Local(now)))
                  => i \in Range(kept)

\* The retry: a job whose delivery failed in the first cycle, never delivered
\* and not in the ledger, is kept by the second cycle's filter
C3_Witness ==
    /\ pc = "filtered"
    /\ cycles = 2
    /\ \E i \in 1..Len(jobs) :
          /\ IdOf(jobs[i]) \in prevFailed
          /\ delivered[IdOf(jobs[i])] = 0
          /\ IdOf(jobs[i]) \notin LedgerIds(ledger)
          /\ i \in Range(kept)

-----------------------------------------------------------------------------
(* C4: when the fetch fails, fetch_jobs returns the empty list and the      *)
(* cycle ends at once: no delivery attempt, no ledger write, nothing caught *)
(* at the cycle boundary, and control is back in main's loop.               *)
C4_FetchFailureIsNoOp ==
    /\ [](fetchStatus \in FetchFailures =>
             /\ jobs = <<>>
             /\ new_jobs = <<>>
             /\ log = <<>>
             /\ ~caught
             /\ pc \in {"poll", "sleep", "down"})
    /\ [][(pc = "fetch" /\ fetchStatus' \in FetchFailures) =>
             /\ ledger' = ledger
             /\ delivered' = delivered
             /\ pc' \in {"poll", "sleep"}]_vars

\* A scheduled cycle whose fetch timed out has returned, the ledger of the
\* cycle before untouched
C4_Witness ==
    /\ fetchStatus = "timeout"
    /\ kind = "scheduled"
    /\ pc = "sleep"
    /\ ledger # {}
    /\ log = <<>>

-----------------------------------------------------------------------------
(* C5 as stated: the filter's output is exactly, in source order, the       *)
(* records whose title matches a role keyword, whose posted-date is fresh   *)
(* and whose identifier is absent from the ledger.                          *)

\* new_jobs is the job_data of the kept records, in their order
OutputOfKept ==
    /\ Ascending(kept)
    /\ Len(new_jobs) = Len(kept)
    /\ \A k \in 1..Len(kept) :
          LET job == jobs[kept[k]]
          IN  /\ new_jobs[k].job_id = IdOf(job)
              /\ new_jobs[k].title = job.title
              /\ new_jobs[k].posted_date = job.posted_date
              /\ new_jobs[k].location =
                    IF "location" \in job.has THEN job.location ELSE "N/A"

C5_ExactSubsequence ==
    pc = "filtered" =>
        /\ OutputOfKept
        /\ Range(kept) = {i \in 1..Len(jobs) :
                             /\ Eligible(jobs[i], Local(now))
                             /\ IdOf(jobs[i]) \notin LedgerIds(ledger)}

(* C5 as amended: the third predicate is that is_job_seen answered False:   *)
(* the identifier is absent from the ledger, or the ledger read for the     *)
(* record failed.                                                           *)
C5_ExactSubsequenceOfUnseen ==
    pc = "filtered" =>
        /\ OutputOfKept
        /\ Range(kept) = {i \in 1..Len(jobs) :
                             /\ Eligible(jobs[i], Local(now))
                             /\ (IdOf(jobs[i]) \notin LedgerIds(ledger) \/ i \in readFail)}

\* A record without a keyword, fresh and new, is dropped and the eligible
\* record after it is the whole output
C5_Witness ==
    /\ pc = "filtered"
    /\ Len(jobs) = 2
    /\ ~RoleMatch(jobs[1])
    /\ Fresh(jobs[1], Local(now))
    /\ IdOf(jobs[1]) \notin LedgerIds(ledger)
    /\ kept = <<2>>

-----------------------------------------------------------------------------
(* C6: once mark_job_as_seen has written a job on a working store,          *)
(* is_job_seen answers True for its identifier, and goes on answering True  *)
(* through every later step, writes for other identifiers included, other   *)
(* than a cleanup.                                                          *)

MarkedOkStep(id) ==
    /\ pc = "mark"
    /\ Len(log') = Len(log) + 2
    /\ log'[Len(log) + 1] = Event("mark", id, TRUE)

PruneStep ==
    /\ pc = "cleanup"
    /\ pc' \in {"poll", "sleep"}
    /\ InCleanupWindow(Local(now))

C6_RecordedStaysSeen ==
    [][\A id \in IdUniverse :
          /\ MarkedOkStep(id) => is_job_seen(ledger', id, TRUE)
          /\ (is_job_seen(ledger, id, TRUE) /\ ~PruneStep)
                => is_job_seen(ledger', id, TRUE)]_vars

\* J2 has just been written in a second cycle and J1, written by the first,
\* is still seen
C6_Witness ==
    /\ cycles = 2
    /\ Len(log) >= 2
    /\ log[Len(log) - 1] = Event("mark", "J2", TRUE)
    /\ "J1" \in seenAtFilter
    /\ is_job_seen(ledger, "J1", TRUE)
    /\ is_job_seen(ledger, "J2", TRUE)

-----------------------------------------------------------------------------
(* C7: a cleanup that runs deletes exactly the entries recorded more than   *)
(* RetentionDays days before it: every entry recorded after the cutoff      *)
(* stays, every entry recorded before it goes.                              *)

\* The instant a row was recorded: its created_at, which is UTC
RecordedAt(r) == r.created_at.date * DaySeconds + r.created_at.time

C7_PruneExactlyOlderThanCutoff ==
    [][(/\ PruneStep
        /\ log' = Append(log, Event("cleanup", "", TRUE)))
          => \A r \in ledger :
                /\ RecordedAt(r) > now - RetentionDays * DaySeconds => r \in ledger'
                /\ RecordedAt(r) < now - RetentionDays * DaySeconds => r \notin ledger']_vars

-----------------------------------------------------------------------------
(* C8: a record whose posted-date parses in no accepted format (garbage,    *)
(* empty, missing, not a string) is left out, nothing is raised, and the    *)
(* other records of the list are still filtered.                            *)
C8_UnparseableDropped ==
    pc = "filtered" =>
        /\ ~caught
        /\ \A i \in 1..Len(jobs) :
              ~Parseable(jobs[i]) =>
                  /\ i \notin Range(kept)
                  /\ \A j \in 1..Len(jobs) :
                        (/\ j # i
                         /\ Eligible(jobs[j], Local(now))
                         /\ IdOf(jobs[j]) \notin LedgerIds(ledger))
                            => j \in Range(kept)

\* A role-matching, unseen record whose posted_date is no string is dropped
\* and the record after it is kept
C8_Witness ==
    /\ pc = "filtered"
    /\ Len(jobs) = 2
    /\ RoleMatch(jobs[1])
    /\ jobs[1].posted_date.kind = "nonstr"
    /\ IdOf(jobs[1]) \notin LedgerIds(ledger)
    /\ kept = <<2>>

-----------------------------------------------------------------------------
(* C9 as stated: a record missing any of identifier, title, location or     *)
(* posted-date is never in the output, and every well-formed eligible       *)
(* record of the list still is.                                             *)

MissingField(job) == ~job.dict \/ job.has # AllFields

RestStillFiltered(i) ==
    \A j \in 1..Len(jobs) :
        (/\ j # i
         /\ ~MissingField(jobs[j])
         /\ Eligible(jobs[j], Local(now))
         /\ IdOf(jobs[j]) \notin LedgerIds(ledger))
            => j \in Range(kept)

C9_MalformedSkipped ==
    pc = "filtered" =>
        \A i \in 1..Len(jobs) :
            MissingField(jobs[i]) => (i \notin Range(kept) /\ RestStillFiltered(i))

(* C9 as amended: a record that is no object, or whose title is missing or  *)
(* no string, or whose posted-date is missing, is skipped; a record missing *)
(* only its location or its identifier is filtered like any other, with     *)
(* location 'N/A' or the empty identifier; in every case the rest of the    *)
(* list is still filtered.                                                  *)
C9_MalformedSkippedOrDefaulted ==
    pc = "filtered" =>
        \A i \in 1..Len(jobs) :
            MissingField(jobs[i]) =>
                /\ RestStillFiltered(i)
                /\ IF \/ ~jobs[i].dict
                      \/ "title" \notin jobs[i].has
                      \/ ~jobs[i].title.str
                      \/ "posted_date" \notin jobs[i].has
                   THEN i \notin Range(kept)
                   ELSE /\ i \in Range(kept) <=>
                              /\ Eligible(jobs[i], Local(now))
                              /\ (IdOf(jobs[i]) \notin LedgerIds(ledger) \/ i \in readFail)
                        /\ \A k \in 1..Len(kept) :
                              kept[k] = i =>
                                  /\ "location" \notin jobs[i].has
                                        => new_jobs[k].location = "N/A"
                                  /\ "id_icims" \notin jobs[i].has
                                        => new_jobs[k].job_id = ""

\* A record without location comes out with location 'N/A', next to a
\* record that is no object and is skipped
C9_Witness ==
    /\ pc = "filtered"
    /\ \E k \in 1..Len(kept) :
          /\ "location" \notin jobs[kept[k]].has
          /\ new_jobs[k].location = "N/A"
    /\ \E j \in 1..Len(jobs) : ~jobs[j].dict /\ j \notin Range(kept)

-----------------------------------------------------------------------------
(* C10 as stated: a ledger read that fails makes the job count as unseen; a *)
(* ledger write that fails after a delivery does not stop the loop, leaves  *)
(* the ledger without an entry for the identifier, and the job is eligible  *)
(* in the next cycle.                                                       *)

SendEvents == {i \in 1..Len(log) : log[i].op = "send"}

ReadFailureMeansUnseen ==
    pc = "filtered" => \A i \in readFail : i \in Range(kept)

LoopGoesOn ==
    pc = "cleanup" => Cardinality(SendEvents) = Len(new_jobs)

C10_StorageFailuresConservative ==
    /\ ReadFailureMeansUnseen
    /\ LoopGoesOn
    /\ CycleEnded =>
          \A id \in EventIds(log, "mark", FALSE) : id \notin LedgerIds(ledger)
    /\ pc = "filtered" =>
          \A i \in 1..Len(jobs) :
              (IdOf(jobs[i]) \in prevUnwritten /\ Eligible(jobs[i], Local(now)))
                  => i \in Range(kept)

(* C10 as amended: a failed write leaves the ledger as it was: at the end   *)
(* of the cycle it holds the identifier only if it held it when the filter  *)
(* ran or another record with that identifier was written in the cycle, and *)
(* the job is eligible in the next cycle whenever the ledger holds no entry *)
(* for it.                                                                  *)
C10_FailedWriteLeavesLedger ==
    /\ ReadFailureMeansUnseen
    /\ LoopGoesOn
    /\ CycleEnded =>
          \A id \in EventIds(log, "mark", FALSE) :
              id \in LedgerIds(ledger) =>
                  (id \in seenAtFilter \/ id \in EventIds(log, "mark", TRUE))
    /\ pc = "filtered" =>
          \A i \in 1..Len(jobs) :
              (/\ IdOf(jobs[i]) \in prevUnwritten
               /\ IdOf(jobs[i]) \notin LedgerIds(ledger)
               /\ Eligible(jobs[i], Local(now)))
                  => i \in Range(kept)

\* A job delivered in the first cycle whose write failed is kept again by the
\* second cycle's filter, next to a recorded job whose ledger read failed
C10_Witness ==
    /\ pc = "filtered"
    /\ cycles = 2
    /\ \E i \in 1..Len(jobs) :
          /\ IdOf(jobs[i]) \in prevUnwritten
          /\ delivered[IdOf(jobs[i])] >= 1
          /\ IdOf(jobs[i]) \notin LedgerIds(ledger)
          /\ i \in Range(kept)
    /\ \E j \in readFail :
          IdOf(jobs[j]) \in LedgerIds(ledger) /\ j \in Range(kept)

-----------------------------------------------------------------------------
(* C11: no exception leaves run_scraping_cycle: the process goes down only  *)
(* at a failed startup or on an interrupt; every cycle that runs ends and   *)
(* main is back in its polling loop; and, unless the process is             *)
(* interrupted, another cycle starts, when the schedule job is due.         *)

InCycle == pc \in {"fetch", "filter", "filtered", "send", "mark", "cleanup"}

-----------------------------------------------------------------------------
(* C12: a cycle runs only after a startup that found both secrets and sent  *)
(* its test message: a start that misses a secret or whose test message     *)
(* fails leaves the process down, having run no cycle, sent no job          *)
(* notification and written nothing to the ledger.                          *)

StartupFailed(st) == ~(st.secrets /\ st.tested)

C12_NoCycleWithoutStartup ==
    /\ [](pc # "down" => ~StartupFailed(startup))
    /\ [][(starts' = starts + 1 /\ StartupFailed(startup'))
             => /\ pc' = "down"
                /\ cycles' = cycles
                /\ ledger' = ledger
                /\ delivered' = delivered
                /\ log' = log
                /\ swept' = swept]_vars
    /\ [][cycles' # cycles => ~StartupFailed(startup')]_vars

\* A restart whose test message fails, after a run that recorded a job
C12_Witness ==
    /\ pc = "down"
    /\ stopped = "startup"
    /\ startup.secrets
    /\ ~startup.tested
    /\ starts = 2
    /\ cycles = 1
    /\ ledger # {}

-----------------------------------------------------------------------------
(* C13: a cycle starts only when none is running: the immediate run starts  *)
(* at startup, once per process run, and an interval-triggered run starts   *)
(* from main's polling loop, after the cycle before it has returned, also   *)
(* when that cycle ran past the tick.                                       *)

C13_OneCycleAtATime ==
    /\ [][cycles' = cycles + 1 =>
             /\ ~InCycle
             /\ pc' = "fetch"
             /\ \/ (pc = "down" /\ starts' = starts + 1 /\ kind' = "initial")
                \/ (pc = "poll" /\ starts' = starts /\ kind' = "scheduled"
                      /\ Local(now) >= next_run)]_vars
    /\ [][(starts' = starts + 1 /\ pc' # "down")
             => (cycles' = cycles + 1 /\ kind' = "initial")]_vars
    /\ [][cycles' \in {cycles, cycles + 1}]_vars

\* An interval-triggered cycle starts late: the startup cycle ran past the tick
C13_Witness ==
    /\ pc = "fetch"
    /\ kind = "scheduled"
    /\ starts = 1
    /\ cycles = 2
    /\ Local(now) > next_run

-----------------------------------------------------------------------------
(* C14: the process never exits on an interrupt with a job of the           *)
(* interrupted cycle delivered and its ledger write not made: every         *)
(* successful delivery in the cycle's history is followed by its write.     *)

C14_NoDeliveryLostOnInterrupt ==
    stopped = "interrupt" =>
        \A i \in 1..Len(log) :
            (log[i].op = "send" /\ log[i].ok)
                => (i < Len(log) /\ log[i + 1].op = "mark" /\ log[i + 1].id = log[i].id)

-----------------------------------------------------------------------------
(* C15 as stated: when the delivery loop has ended, the deliveries          *)
(* attempted are those of the filtered list, one each and in its order; a   *)
(* job is in the ledger by this cycle's write exactly when its own delivery *)
(* succeeded; the one-second sleep follows successful deliveries only.      *)

IsSend(e) == e.op = "send"

\* Every job of new_jobs has one delivery attempt, in order
OneAttemptEach ==
    LET sends == SelectSeq(log, IsSend)
    IN  /\ Len(sends) = Len(new_jobs)
        /\ \A k \in 1..Len(sends) : sends[k].id = new_jobs[k].job_id

\* A sleep follows a ledger write and a ledger write follows a successful
\* delivery of the same job
SleepOnlyAfterDelivery ==
    \A i \in 1..Len(log) :
        /\ log[i].op = "sleep"
              => (i > 1 /\ log[i - 1].op = "mark" /\ log[i - 1].id = log[i].id)
        /\ log[i].op = "mark"
              => (i > 1 /\ log[i - 1] = Event("send", log[i].id, TRUE))

C15_OneAttemptRecordedIffDelivered ==
    pc = "cleanup" =>
        /\ OneAttemptEach
        /\ SleepOnlyAfterDelivery
        /\ \A i \in 1..Len(log) :
              log[i].op = "send" =>
                  (log[i].ok <=>
                      (i < Len(log) /\ log[i + 1] = Event("mark", log[i].id, TRUE)))

(* C15 as amended: the ledger write is attempted exactly when the job's own *)
(* delivery succeeded, and the sleep follows every such attempt, whether    *)
(* the write succeeded or failed.                                           *)
C15_OneAttemptWriteTriedIffDelivered ==
    pc = "cleanup" =>
        /\ OneAttemptEach
        /\ SleepOnlyAfterDelivery
        /\ \A i \in 1..Len(log) :
              log[i].op = "send" =>
                  /\ log[i].ok <=>
                        (i < Len(log) /\ log[i + 1].op = "mark" /\ log[i + 1].id = log[i].id)
                  /\ log[i].ok => (i + 1 < Len(log) /\ log[i + 2].op = "sleep")

\* The first delivery failed, the second was still attempted and succeeded,
\* and its ledger write failed
C15_Witness ==
    /\ pc = "cleanup"
    /\ Len(new_jobs) = 2
    /\ Len(log) = 4
    /\ log[1].op = "send" /\ ~log[1].ok
    /\ log[2].op = "send" /\ log[2].ok
    /\ log[3].op = "mark" /\ ~log[3].ok

-----------------------------------------------------------------------------
(* C16 as stated: no two cycles invoke cleanup_old_jobs in the same         *)
(* occurrence of the daily window.                                          *)

SameWindow(a, b) == Today(a.at) = Today(b.at)

-----------------------------------------------------------------------------
(* C17: for a record that reaches the freshness check and whose identifier  *)
(* the ledger does not hold, the filter keeps it exactly when its           *)
(* posted_date parses and the local time minus the parsed date is at most   *)
(* 24 hours, as a signed difference: dates ahead of now are fresh.          *)

ReachesFreshness(job) == RoleMatch(job)

-----------------------------------------------------------------------------
(* C18 as stated: a ledger row, once written, stays as it is until a        *)
(* cleanup deletes it.                                                      *)

C18_EntryNeverUpdated ==
    [][\A r \in ledger :
          \/ r \in ledger'
          \/ (PruneStep /\ r.job_id \notin LedgerIds(ledger'))]_vars

(* C18 as amended: a ledger row appears by a successful write after a       *)
(* delivery, there is one row per identifier, and a row stays as it is      *)
(* until a cleanup deletes it or a job with its identifier is delivered and *)
(* written again, which replaces all its fields and its created_at; that    *)
(* happens only when the ledger read for the identifier failed in the       *)
(* filter or the same cycle has already written the identifier.             *)
C18_EntryRewrittenOnlyOnRedelivery ==
    /\ [](\A r1, r2 \in ledger : r1.job_id = r2.job_id => r1 = r2)
    /\ [][\A id \in LedgerIds(ledger') \ LedgerIds(ledger) : MarkedOkStep(id)]_vars
    /\ [][\A r \in ledger :
             \/ r \in ledger'
             \/ (PruneStep /\ r.job_id \notin LedgerIds(ledger'))
             \/ /\ MarkedOkStep(r.job_id)
                /\ Row(new_jobs[idx], now) \in ledger'
                /\ new_jobs[idx].job_id = r.job_id
                /\ \/ r.job_id \in blindIds
                   \/ r.job_id \in EventIds(log, "mark", TRUE)]_vars

\* A row the ledger held when the filter ran has been written again in a
\* second cycle, after a failed ledger read
C18_Witness ==
    /\ cycles = 2
    /\ \E r \in ledger :
          /\ r.job_id \in seenAtFilter
          /\ r.job_id \in blindIds
          /\ r.job_id \in EventIds(log, "mark", TRUE)
          /\ r.created_at.date * DaySeconds + r.created_at.time + RateLimitSeconds = now

-----------------------------------------------------------------------------
(* C19: every identifier in the ledger has been delivered, and a ledger     *)
(* write is made only straight after the successful delivery of the same    *)
(* job in the same cycle.                                                   *)

C19_LedgerOnlyAfterDelivery ==
    /\ [](\A id \in LedgerIds(ledger) : delivered[id] >= 1)
    /\ [](pc = "mark" =>
             (Len(log) >= 1 /\ log[Len(log)] = Event("send", new_jobs[idx].job_id, TRUE)))
    /\ [][\A id \in LedgerIds(ledger') \ LedgerIds(ledger) :
             (pc = "mark" /\ id = new_jobs[idx].job_id)]_vars

\* J2 is in the ledger after its delivery and J1, whose delivery failed in the
\* same cycle, is not
C19_Witness ==
    /\ pc = "cleanup"
    /\ "J1" \in EventIds(log, "send", FALSE)
    /\ delivered["J1"] = 0
    /\ delivered["J2"] = 1
    /\ LedgerIds(ledger) = {"J2"}

-----------------------------------------------------------------------------
(* C20: a cycle that ends at an empty fetch, at an empty filter result or   *)
(* in the handler of line 297 changes nothing in the ledger and does not    *)
(* invoke cleanup_old_jobs, inside the window or not; cleanup_old_jobs is   *)
(* invoked only at the end of a delivery loop over at least one job.        *)

====
